---- MODULE Spec2Model ----
(***************************************************************************)
(* Cardio-Tool: the four Gradio handlers of cardio_app.py (run_ascvd,      *)
(* run_bp, run_cha2ds2vasc, run_ecg) with the usage log they share, the    *)
(* PDF report renderer of reports/pdf.py, and the POST /predict route that *)
(* tests/test_api.py exercises.                                            *)
(*                                                                         *)
(* Conventions.  A Python str is a TLA+ string; a text that may hold       *)
(* newlines is the sequence of its lines.  None, and the flag values of    *)
(* run_cha2ds2vasc, are written as strings ("None", "True", "yes").  A     *)
(* probability is an integer number of 1/10000.  The leading U+274C of the *)
(* error message is written "X".  A call that raises is a record whose exc *)
(* field names the exception type.                                         *)
(***************************************************************************)
EXTENDS Integers, Sequences, FiniteSets, TLC

VARIABLES
    log,         \* usage.log: the sequence of physical lines written so far
    pc,          \* per caller: "idle", "log", "returned" or "raised"
    inv,         \* per caller: the locals of its current invocation
    nCalls,      \* invocations started so far
    returned,    \* every (tool, clinical input, text) handed back to a caller
    active,      \* the callers (threads of the Gradio worker pool) that exist
    defect,      \* the calculator or validator holding an internal fault
    ascvdTable,  \* the pooled-cohort risk of each valid ASCVD record
    pdf,         \* reports/pdf.py: the last rendering and its arguments
    rendered,    \* every (data, title, return_base64, time, result) rendered, in order
    clock,       \* wall-clock seconds read by FPDF.output
    api          \* POST /predict: the responses produced so far

vars == <<log, pc, inv, nCalls, returned, active, defect, ascvdTable,
          pdf, rendered, clock, api>>
appVars == <<log, pc, inv, nCalls, returned, active, defect, ascvdTable>>
pdfVars == <<pdf, rendered, clock>>

\* ------------------------------------------------------------------ bounds
MaxCalls    == 2
NumCallers  == 2
MaxRenders  == 2
MaxClock    == 1
MaxRequests == 2

Callers    == 1..NumCallers
Sessions   == {"3f9a1c07", "b21e88d4"}
PatientIds == {"N/A", "P-17"}

\* ------------------------------------------------------- exceptions, calls
Ok(v)       == [exc |-> "none", val |-> v, msg |-> ""]
Raise(e, m) == [exc |-> e, val |-> "", msg |-> m]

\* A component of the engine either works as specified or holds an internal
\* fault and raises something that is not a ValueError.
Component(name, result) ==
    IF defect = name
    THEN Raise("RuntimeError", "internal fault in " \o name)
    ELSE result

Step(fn, arg, res) == [fn |-> fn, arg |-> arg, res |-> res]

RECURSIVE FirstRaise(_, _)
FirstRaise(steps, i) ==
    IF i > Len(steps) THEN 0
    ELSE IF steps[i].res.exc # "none" THEN i
    ELSE FirstRaise(steps, i + 1)

\* The mutation of TryBody: the first statement of the body, the call of the
\* validator, is left out.
TryBodyWithoutFirst(steps) ==
    LET rest == Tail(steps)
        k == FirstRaise(rest, 1)
        n == IF k = 0 THEN Len(rest) ELSE k
    IN  [calls  |-> [i \in 1..n |->
                       [fn |-> rest[i].fn, arg |-> rest[i].arg,
                        exc |-> rest[i].res.exc, msg |-> rest[i].res.msg]],
         raised |-> IF k = 0 THEN Ok("") ELSE rest[k].res]

\* The statements of a try body in order: the calls made up to and including
\* the first one that raises, and what it raised.
TryBody(steps) ==
    LET k == FirstRaise(steps, 1)
        n == IF k = 0 THEN Len(steps) ELSE k
    IN  [calls  |-> [i \in 1..n |->
                       [fn |-> steps[i].fn, arg |-> steps[i].arg,
                        exc |-> steps[i].res.exc, msg |-> steps[i].res.msg]],
         raised |-> IF k = 0 THEN Ok("") ELSE steps[k].res]

\* What a handler leaves behind: with exc = "none" it is about to call
\* log_usage(tool, logged, outputs) and return ret; otherwise exc names the
\* exception that left the handler.
Outcome(tool, logged, body, outputs, ret, locals) ==
    [tool |-> tool, logged |-> logged, calls |-> body.calls,
     caught |-> body.raised.exc, exc |-> "none",
     outputs |-> outputs, ret |-> ret, locals |-> locals]

Escaped(tool, body, e) ==
    [tool |-> tool, logged |-> <<>>, calls |-> body.calls,
     caught |-> "none", exc |-> e.exc,
     outputs |-> <<>>, ret |-> <<>>, locals |-> <<>>]

\* The mutation of Handler: the text carries the number of calls made so far.
HandlerCountingCalls(tool, logged, body, result_text, locals) ==
    IF body.raised.exc = "none"
    THEN Outcome(tool, logged, body, result_text,
                 result_text \o <<"call " \o ToString(nCalls + 1)>>, locals)
    ELSE IF body.raised.exc = "ValueError"
    THEN Outcome(tool, logged, body,
                 <<"Error: " \o body.raised.msg>>,
                 <<"X Input Error: " \o body.raised.msg>>, <<>>)
    ELSE Escaped(tool, body, body.raised)

\* try: <body>; log_usage(tool, data, result_text); return result_text
\* except ValueError as e: log_usage(tool, data, "Error: ..."); return "X Input
\* Error: ...".  Any other exception leaves the handler.
Handler(tool, logged, body, result_text, locals) ==
    IF body.raised.exc = "none"
    THEN Outcome(tool, logged, body, result_text, result_text, locals)
    ELSE IF body.raised.exc = "ValueError"
    THEN Outcome(tool, logged, body,
                 <<"Error: " \o body.raised.msg>>,
                 <<"X Input Error: " \o body.raised.msg>>, <<>>)
    ELSE Escaped(tool, body, body.raised)

NoCalls == [calls |-> <<>>, raised |-> Ok("")]

\* ------------------------------------------------------------ ASCVD risk
\* Thresholds of the category bands, in 1/10000 (0.20, 0.075, 0.05).
HighRisk         == 2000
IntermediateRisk == 750
BorderlineRisk   == 500

\* Probabilities the calculator may return: each threshold, the value just
\* below it, and the ends of [0,1].
RiskValues == {0, 499, 500, 749, 750, 1999, 2000, 10000}

AscvdBase == [age |-> 40, sex |-> "Male", race |-> "White", total_chol |-> 200,
              hdl |-> 50, sbp |-> 120, on_htn_meds |-> FALSE, smoker |-> FALSE,
              diabetes |-> FALSE]
AscvdArgs == {AscvdBase,
              [AscvdBase EXCEPT !.age = 39],
              [AscvdBase EXCEPT !.race = "Asian"],
              [AscvdBase EXCEPT !.sex = "None"]}
AscvdValidAges == {40}

validate_ascvd_input(data) ==
    Component("validate_ascvd_input",
        IF data.sex = "None" THEN Raise("ValueError", "sex is required")
        ELSE IF data.sex \notin {"Male", "Female"}
        THEN Raise("ValueError", "sex must be Male or Female")
        ELSE IF data.race \notin {"White", "Black"}
        THEN Raise("ValueError", "race must be White or Black")
        ELSE IF data.age < 40 \/ data.age > 79
        THEN Raise("ValueError", "age must be between 40 and 79")
        ELSE Ok("None"))

ascvd(data) ==
    Component("ascvd",
        IF data.age \in DOMAIN ascvdTable THEN Ok(ascvdTable[data.age])
        ELSE Raise("KeyError", "age"))

\* The mutation of Category: the bands are open at their lower bound.
CategoryOpenBelow(risk) ==
    IF risk > HighRisk THEN "High"
    ELSE IF risk > IntermediateRisk THEN "Intermediate"
    ELSE IF risk > BorderlineRisk THEN "Borderline"
    ELSE "Low"

Category(risk) ==
    IF risk >= HighRisk THEN "High"
    ELSE IF risk >= IntermediateRisk THEN "Intermediate"
    ELSE IF risk >= BorderlineRisk THEN "Borderline"
    ELSE "Low"

\* f"{risk:.1%}": the percentage rounded to one decimal, ties to even.
Pct1(risk) ==
    LET q == risk \div 10
        r == risk % 10
        p == IF r > 5 \/ (r = 5 /\ q % 2 = 1) THEN q + 1 ELSE q
    IN  ToString(p \div 10) \o "." \o ToString(p % 10) \o "%"

run_ascvd_body(a) ==
    LET data == [age |-> a.age, sex |-> a.sex, race |-> a.race,
                 total_cholesterol |-> a.total_chol, hdl |-> a.hdl, sbp |-> a.sbp,
                 on_htn_meds |-> a.on_htn_meds, smoker |-> a.smoker,
                 diabetes |-> a.diabetes]
        risk == ascvd(data)
        category == Category(risk.val)
        result_text == <<"10-Year ASCVD Risk: " \o Pct1(risk.val)
                           \o " (" \o category \o ")">>
        body == TryBody(<<Step("validate_ascvd_input", data, validate_ascvd_input(data)),
                          Step("ascvd", data, risk)>>)
    IN  Handler("ascvd", data, body, result_text,
                [risk |-> risk.val, category |-> category])

\* ------------------------------------------------- blood pressure category
BpArgs == {[sbp |-> 115, dbp |-> 75], [sbp |-> 115, dbp |-> 95],
           [sbp |-> 30, dbp |-> 75]}

validate_bp_input(sbp, dbp) ==
    Component("validate_bp_input",
        IF sbp < 50 \/ sbp > 250
        THEN Raise("ValueError", "sbp must be between 50 and 250")
        ELSE IF dbp < 40 \/ dbp > 150
        THEN Raise("ValueError", "dbp must be between 40 and 150")
        ELSE Ok("None"))

bp_category(sbp, dbp) ==
    Component("bp_category",
        Ok(IF sbp > 180 \/ dbp > 120 THEN "Hypertensive Crisis"
           ELSE IF sbp >= 140 \/ dbp >= 90 THEN "Hypertension Stage 2"
           ELSE IF sbp >= 130 \/ dbp >= 80 THEN "Hypertension Stage 1"
           ELSE IF sbp >= 120 THEN "Elevated"
           ELSE "Normal"))

run_bp_body(a) ==
    LET data == [sbp |-> a.sbp, dbp |-> a.dbp]
        category == bp_category(a.sbp, a.dbp)
        result_text == <<"Blood Pressure Category: " \o category.val>>
        body == TryBody(<<Step("validate_bp_input", [sbp |-> a.sbp, dbp |-> a.dbp],
                               validate_bp_input(a.sbp, a.dbp)),
                          Step("bp_category", [sbp |-> a.sbp, dbp |-> a.dbp],
                               category)>>)
    IN  Handler("bp_category", data, body, result_text, <<>>)

\* ------------------------------------------------------------ CHA2DS2-VASc
Cha2Base == [chf |-> "False", htn |-> "False", age75 |-> "False",
             diabetes |-> "False", stroke |-> "False", vascular |-> "False",
             age65_74 |-> "False", female |-> "False"]
Cha2Args == {Cha2Base,
             [Cha2Base EXCEPT !.chf = "True", !.age75 = "True"],
             [Cha2Base EXCEPT !.chf = "2"],
             [Cha2Base EXCEPT !.chf = "yes"],
             [Cha2Base EXCEPT !.stroke = "None"]}

\* int(x): True and False are 1 and 0, a numeral is its number, any other str
\* is a ValueError and None a TypeError.
int(x) ==
    IF x = "True" THEN Ok(1)
    ELSE IF x = "False" THEN Ok(0)
    ELSE IF x = "2" THEN Ok(2)
    ELSE IF x = "None"
    THEN Raise("TypeError", "int() argument must be a string, a bytes-like object or a real number, not 'NoneType'")
    ELSE Raise("ValueError", "invalid literal for int() with base 10: '" \o x \o "'")

Cha2Keys == <<"chf", "hypertension", "age_ge_75", "diabetes", "stroke",
              "vascular", "age_65_74", "female">>

validate_cha2ds2vasc_input(data) ==
    Component("validate_cha2ds2vasc_input",
        IF \E i \in 1..Len(Cha2Keys) : data[Cha2Keys[i]] \notin {0, 1}
        THEN LET i == CHOOSE j \in 1..Len(Cha2Keys) :
                        /\ data[Cha2Keys[j]] \notin {0, 1}
                        /\ \A k \in 1..(j - 1) : data[Cha2Keys[k]] \in {0, 1}
             IN  Raise("ValueError", Cha2Keys[i] \o " must be 0 or 1")
        ELSE Ok("None"))

cha2ds2vasc(data) ==
    Component("cha2ds2vasc",
        Ok(data.chf + data.hypertension + 2 * data.age_ge_75 + data.diabetes
           + 2 * data.stroke + data.vascular + data.age_65_74 + data.female))

run_cha2ds2vasc_body(a) ==
    LET coerced == <<int(a.chf), int(a.htn), int(a.age75), int(a.diabetes),
                     int(a.stroke), int(a.vascular), int(a.age65_74), int(a.female)>>
        k == CHOOSE j \in 0..Len(coerced) :
                /\ j > 0 => coerced[j].exc # "none"
                /\ \A i \in 1..Len(coerced) :
                      (i < j \/ j = 0) => coerced[i].exc = "none"
        data == [chf |-> coerced[1].val, hypertension |-> coerced[2].val,
                 age_ge_75 |-> coerced[3].val, diabetes |-> coerced[4].val,
                 stroke |-> coerced[5].val, vascular |-> coerced[6].val,
                 age_65_74 |-> coerced[7].val, female |-> coerced[8].val]
        score == cha2ds2vasc(data)
        result_text == <<"CHA2DS2-VASc Score: " \o ToString(score.val)>>
        body == TryBody(<<Step("validate_cha2ds2vasc_input", data,
                               validate_cha2ds2vasc_input(data)),
                          Step("cha2ds2vasc", data, score)>>)
    IN  IF k # 0 THEN Escaped("cha2ds2vasc", NoCalls, coerced[k])
        ELSE Handler("cha2ds2vasc", data, body, result_text, <<>>)

\* ------------------------------------------------------ ECG interpretation
EcgBase == [rate |-> 75, regular |-> TRUE, p_waves_present |-> TRUE,
            st_elev |-> FALSE, st_elev_leads |-> "", qt |-> 400, rr |-> 800,
            lvh |-> FALSE, q_waves |-> FALSE, q_leads |-> "",
            t_inversion |-> FALSE, pr |-> 160]
EcgArgs == {EcgBase,
            [EcgBase EXCEPT !.st_elev_leads = "V1-V3"],
            [EcgBase EXCEPT !.st_elev = TRUE, !.st_elev_leads = "V1-V3"],
            [EcgBase EXCEPT !.st_elev = TRUE],
            [EcgBase EXCEPT !.q_leads = "II,III"],
            [EcgBase EXCEPT !.q_waves = TRUE, !.q_leads = "II,III"],
            [EcgBase EXCEPT !.rate = 300]}

\* The truth value Python's "and" and "if" give a str: empty is false.
Truthy(s) == s # ""

EmptyDict == [k \in {} |-> ""]

\* {**d1, **d2}
Merge(d1, d2) ==
    [k \in DOMAIN d1 \cup DOMAIN d2 |-> IF k \in DOMAIN d2 THEN d2[k] ELSE d1[k]]

\* The mutation of OptionalLeads: the lead text is kept whenever it is given.
OptionalLeadsIgnoringFlag(key, flag, leads) ==
    IF leads # "" THEN [k \in {key} |-> leads] ELSE EmptyDict

\* **({key: leads} if flag and leads else {})
OptionalLeads(key, flag, leads) ==
    IF flag /\ Truthy(leads) THEN [k \in {key} |-> leads] ELSE EmptyDict

validate_ecg_rhythm_input(rhythm_data) ==
    Component("validate_ecg_rhythm_input",
        IF rhythm_data.rate < 20 \/ rhythm_data.rate > 250
        THEN Raise("ValueError", "rate must be between 20 and 250")
        ELSE Ok("None"))

validate_ecg_12lead_input(lead_data) ==
    Component("validate_ecg_12lead_input",
        IF "st_elevation_leads" \in DOMAIN lead_data /\ ~lead_data.st_elevation
        THEN Raise("ValueError", "st_elevation_leads given without st_elevation")
        ELSE IF "q_wave_leads" \in DOMAIN lead_data /\ ~lead_data.pathological_q_waves
        THEN Raise("ValueError", "q_wave_leads given without pathological_q_waves")
        ELSE IF lead_data.qt_interval_ms < 300 \/ lead_data.qt_interval_ms > 700
        THEN Raise("ValueError", "qt_interval_ms must be between 300 and 700")
        ELSE Ok("None"))

interpret_rhythm(rate, regular, p_waves_present) ==
    Component("interpret_rhythm",
        Ok(IF ~regular /\ ~p_waves_present THEN "Atrial fibrillation suspected"
           ELSE IF rate < 60 THEN "Sinus bradycardia"
           ELSE IF rate > 100 THEN "Sinus tachycardia"
           ELSE "Normal sinus rhythm"))

WithLeads(name, d, key) ==
    IF key \in DOMAIN d THEN name \o " in " \o d[key] ELSE name

interpret_12lead_findings(d) ==
    Component("interpret_12lead_findings",
        Ok([findings |->
              (IF d.st_elevation
               THEN <<WithLeads("ST elevation", d, "st_elevation_leads")>> ELSE <<>>)
              \o (IF d.lvh_criteria_met THEN <<"LVH criteria met">> ELSE <<>>)
              \o (IF d.pathological_q_waves
                  THEN <<WithLeads("Pathological Q waves", d, "q_wave_leads")>> ELSE <<>>)
              \o (IF d.t_wave_inversion THEN <<"T-wave inversion">> ELSE <<>>)]))

interpret_ecg_comprehensive(d) ==
    Component("interpret_ecg_comprehensive",
        Ok([overall_risk |->
              IF d.st_elevation THEN "high"
              ELSE IF d.lvh_criteria_met \/ d.pathological_q_waves \/ d.t_wave_inversion
                      \/ d.rate < 60 \/ d.rate > 100
              THEN "moderate"
              ELSE "low"]))

\* str() of a list of str, as an f-string prints it.
RECURSIVE Joined(_)
Joined(l) ==
    IF l = <<>> THEN ""
    ELSE IF Len(l) = 1 THEN "'" \o l[1] \o "'"
    ELSE "'" \o l[1] \o "', " \o Joined(Tail(l))
StrOfList(l) == "[" \o Joined(l) \o "]"

run_ecg_body(a) ==
    LET rhythm_data == [rate |-> a.rate, regular |-> a.regular,
                        p_waves_present |-> a.p_waves_present]
        lead_data ==
            Merge(Merge([st_elevation |-> a.st_elev],
                        OptionalLeads("st_elevation_leads", a.st_elev, a.st_elev_leads)),
                  Merge([qt_interval_ms |-> a.qt, rr_interval_ms |-> a.rr,
                         lvh_criteria_met |-> a.lvh, pathological_q_waves |-> a.q_waves],
                        Merge(OptionalLeads("q_wave_leads", a.q_waves, a.q_leads),
                              [t_wave_inversion |-> a.t_inversion,
                               pr_interval_ms |-> a.pr])))
        merged == Merge(rhythm_data, lead_data)
        rhythm == interpret_rhythm(a.rate, a.regular, a.p_waves_present)
        findings == interpret_12lead_findings(lead_data)
        comprehensive == interpret_ecg_comprehensive(merged)
        findings_text == IF findings.val.findings = <<>>
                         THEN "No 12-lead abnormalities detected"
                         ELSE StrOfList(findings.val.findings)
        summary == <<"Rhythm: " \o rhythm.val,
                     "Findings: " \o findings_text,
                     "Overall Risk: " \o comprehensive.val.overall_risk>>
        body == TryBody(<<Step("validate_ecg_rhythm_input", rhythm_data,
                               validate_ecg_rhythm_input(rhythm_data)),
                          Step("validate_ecg_12lead_input", lead_data,
                               validate_ecg_12lead_input(lead_data)),
                          Step("interpret_rhythm",
                               [rate |-> a.rate, regular |-> a.regular,
                                p_waves_present |-> a.p_waves_present], rhythm),
                          Step("interpret_12lead_findings", lead_data, findings),
                          Step("interpret_ecg_comprehensive", merged, comprehensive)>>)
    IN  Handler("ecg_interpret", merged, body, summary, <<>>)

\* --------------------------------------------------------------- usage log
\* logging.info(f"session={session_id} tool={tool_name} inputs={inputs}
\* outputs={outputs}") under format "%(asctime)s | %(message)s": the handler
\* holds its lock for the whole record, and writes the message followed by a
\* newline; a newline inside outputs starts a new physical line.
LogLines(session, tool_name, inputs, outputs, id) ==
    <<[kind |-> "record", session |-> session, tool |-> tool_name,
       inputs |-> inputs, outputs |-> outputs[1], by |-> id]>>
    \o [i \in 1..(Len(outputs) - 1) |->
          [kind |-> "continuation", text |-> outputs[i + 1], by |-> id]]

Idle == [tool |-> "none", logged |-> <<>>, calls |-> <<>>, caught |-> "none",
         exc |-> "none", outputs |-> <<>>, ret |-> <<>>, locals |-> <<>>,
         args |-> <<>>, patient_id |-> "N/A", id |-> 0]

\* A caller (a Gradio event) enters a handler: the handler runs up to its call
\* of log_usage, or to the exception that leaves it.
Invoke(c, o, a, patient_id) ==
    /\ c \in active
    /\ pc[c] # "log"
    /\ nCalls < MaxCalls
    /\ nCalls' = nCalls + 1
    /\ inv' = [inv EXCEPT ![c] = [tool |-> o.tool, logged |-> o.logged,
                                  calls |-> o.calls, caught |-> o.caught,
                                  exc |-> o.exc, outputs |-> o.outputs,
                                  ret |-> o.ret, locals |-> o.locals,
                                  args |-> a, patient_id |-> patient_id,
                                  id |-> nCalls + 1]]
    /\ pc' = [pc EXCEPT ![c] = IF o.exc = "none" THEN "log" ELSE "raised"]
    /\ UNCHANGED <<log, returned, active, defect, ascvdTable, pdf, rendered, clock, api>>

run_ascvd(c) ==
    \E a \in AscvdArgs, patient_id \in PatientIds :
        Invoke(c, run_ascvd_body(a), a, patient_id)

run_bp(c) ==
    \E a \in BpArgs, patient_id \in PatientIds :
        Invoke(c, run_bp_body(a), a, patient_id)

run_cha2ds2vasc(c) ==
    \E a \in Cha2Args, patient_id \in PatientIds :
        Invoke(c, run_cha2ds2vasc_body(a), a, patient_id)

run_ecg(c) ==
    \E a \in EcgArgs, patient_id \in PatientIds :
        Invoke(c, run_ecg_body(a), a, patient_id)

\* log_usage, and the return that follows it.
log_usage(c) ==
    /\ c \in active
    /\ pc[c] = "log"
    /\ \E session_id \in Sessions :
          log' = log \o LogLines(session_id, inv[c].tool, inv[c].logged,
                                 inv[c].outputs, inv[c].id)
    /\ pc' = [pc EXCEPT ![c] = "returned"]
    /\ returned' = returned \cup
          {[tool |-> inv[c].tool, args |-> inv[c].args, text |-> inv[c].ret]}
    /\ UNCHANGED <<inv, nCalls, active, defect, ascvdTable, pdf, rendered, clock, api>>

Components == {"validate_ascvd_input", "ascvd", "validate_bp_input", "bp_category",
               "validate_cha2ds2vasc_input", "cha2ds2vasc",
               "validate_ecg_rhythm_input", "validate_ecg_12lead_input",
               "interpret_rhythm", "interpret_12lead_findings",
               "interpret_ecg_comprehensive"}

AppInit ==
    /\ log = <<>>
    /\ pc = [c \in Callers |-> "idle"]
    /\ inv = [c \in Callers |-> Idle]
    /\ nCalls = 0
    /\ returned = {}
    /\ ascvdTable \in [AscvdValidAges -> RiskValues]

OtherInit ==
    /\ pdf = [data_before |-> <<>>, data |-> <<>>, title |-> <<>>]
    /\ rendered = <<>>
    /\ clock = 0
    /\ api = <<>>

\* One caller, every component working as specified.
Init ==
    /\ AppInit
    /\ OtherInit
    /\ active = {1}
    /\ defect = "none"

\* One caller, one component of the engine holding an internal fault.
InitFault ==
    /\ AppInit
    /\ OtherInit
    /\ ascvdTable \in [AscvdValidAges -> {HighRisk}]
    /\ active = {1}
    /\ defect \in Components

\* The callers of the worker pool run handlers at the same time.
InitConc ==
    /\ AppInit
    /\ OtherInit
    /\ ascvdTable \in [AscvdValidAges -> {HighRisk}]
    /\ active = Callers
    /\ defect = "none"

Next ==
    \E c \in Callers :
        \/ run_ascvd(c)
        \/ run_bp(c)
        \/ run_cha2ds2vasc(c)
        \/ run_ecg(c)
        \/ log_usage(c)

Spec == Init /\ [][Next]_vars
SpecFault == InitFault /\ [][Next]_vars
SpecConc == InitConc /\ [][Next]_vars

\* ------------------------------------------------------- reports/pdf.py
\* In this part a str is the sequence of its character codes, and a value of
\* the data dict is tagged with its Python type.
StrVal(codes) == [type |-> "str", codes |-> codes]
IntVal(n)     == [type |-> "int", n |-> n]

RECURSIVE Digits(_)
Digits(n) == IF n < 10 THEN <<48 + n>> ELSE Digits(n \div 10) \o <<48 + (n % 10)>>

\* str(value), as the f-string applies it.
str(value) == IF value.type = "int" THEN Digits(value.n) ELSE value.codes

\* A dict is the sequence of its items in insertion order.
KeyHr   == <<104, 114>>
KeyRisk == <<114, 105, 115, 107>>
PdfData == {<<>>,
            <<<<KeyHr, IntVal(72)>>>>,
            <<<<KeyHr, StrVal(<<55, 50>>)>>>>,
            <<<<KeyHr, IntVal(72)>>, <<KeyRisk, StrVal(<<108, 111, 119>>)>>>>,
            <<<<KeyRisk, StrVal(<<108, 111, 119>>)>>, <<KeyHr, IntVal(72)>>>>}
PdfTitles == {<<69, 67, 71>>, <<66, 80>>}

\* The mutation of Cells: the last item of data is not rendered.
CellsDroppingLast(data, title) ==
    <<title>> \o [i \in 1..(Len(data) - 1) |-> data[i][1] \o <<58, 32>> \o str(data[i][2])]

\* The cells the function puts on the page: the title, then one per item.
Cells(data, title) ==
    <<title>> \o [i \in 1..Len(data) |-> data[i][1] \o <<58, 32>> \o str(data[i][2])]

RECURSIVE Flatten(_)
Flatten(lines) ==
    IF lines = <<>> THEN <<>> ELSE Head(lines) \o <<10>> \o Flatten(Tail(lines))

\* pdf.output(buf): the document as bytes.  FPDF writes the creation date of
\* the document, the time of the call in seconds, into the stream.
Output(cells, now) == <<37, 80, 68, 70, 48 + now, 10>> \o Flatten(cells)

B64Alphabet ==
    <<"A", "B", "C", "D", "E", "F", "G", "H", "I", "J", "K", "L", "M", "N", "O", "P",
      "Q", "R", "S", "T", "U", "V", "W", "X", "Y", "Z", "a", "b", "c", "d", "e", "f",
      "g", "h", "i", "j", "k", "l", "m", "n", "o", "p", "q", "r", "s", "t", "u", "v",
      "w", "x", "y", "z", "0", "1", "2", "3", "4", "5", "6", "7", "8", "9", "+", "/">>
B64Char(i) == B64Alphabet[i + 1]

\* base64.b64encode(bytes).decode(): three bytes give four characters, and a
\* last group of one or two bytes is padded with "=".
RECURSIVE b64encode(_)
b64encode(bs) ==
    IF bs = <<>> THEN <<>>
    ELSE IF Len(bs) = 1
    THEN <<B64Char(bs[1] \div 4), B64Char((bs[1] % 4) * 16), "=", "=">>
    ELSE IF Len(bs) = 2
    THEN <<B64Char(bs[1] \div 4), B64Char((bs[1] % 4) * 16 + bs[2] \div 16),
           B64Char((bs[2] % 16) * 4), "=">>
    ELSE <<B64Char(bs[1] \div 4), B64Char((bs[1] % 4) * 16 + bs[2] \div 16),
           B64Char((bs[2] % 16) * 4 + bs[3] \div 64), B64Char(bs[3] % 64)>>
         \o b64encode(SubSeq(bs, 4, Len(bs)))

create_pdf_report(data, title, return_base64) ==
    /\ Len(rendered) < MaxRenders
    /\ LET buf == Output(Cells(data, title), clock)
           result == IF return_base64
                     THEN [raw |-> <<>>, b64 |-> b64encode(buf)]
                     ELSE [raw |-> buf, b64 |-> <<>>]
       IN  /\ pdf' = [data_before |-> data, data |-> data, title |-> title]
           /\ rendered' = Append(rendered,
                  [data |-> data, title |-> title, return_base64 |-> return_base64,
                   at |-> clock, result |-> result])
    /\ UNCHANGED <<appVars, clock, api>>

\* A second passes between two calls.
Tick ==
    /\ clock < MaxClock
    /\ clock' = clock + 1
    /\ UNCHANGED <<appVars, pdf, rendered, api>>

PdfNext ==
    \/ \E data \in PdfData, title \in PdfTitles, return_base64 \in BOOLEAN :
          create_pdf_report(data, title, return_base64)
    \/ Tick

AuxInit ==
    /\ AppInit
    /\ OtherInit
    /\ ascvdTable \in [AscvdValidAges -> {HighRisk}]
    /\ active = {1}
    /\ defect = "none"

SpecPdf == AuxInit /\ [][PdfNext]_vars

\* ------------------------------------------------------------ POST /predict
\* run_cardio_inference either returns (score, category), the score a
\* percentage in tenths, or raises.
Scores        == {0, 125, 750, 1000}
RiskLabels    == {"low", "moderate", "high"}
FailureTexts  == {"Mock failure", "model not loaded"}
Inferences ==
    {[raises |-> FALSE, score |-> sc, category |-> cat, msg |-> ""] :
        sc \in Scores, cat \in RiskLabels}
    \cup {[raises |-> TRUE, score |-> 0, category |-> "", msg |-> m] : m \in FailureTexts}

\* f"{score:.1f}%"
PctText(score) == ToString(score \div 10) \o "." \o ToString(score % 10) \o "%"

\* The mutation of Response: a failure of the inference is answered 200.
ResponseHidingFailure(inference) ==
    [status |-> 200,
     body |-> [risk_score |-> inference.score,
               risk_category |-> inference.category,
               explanation |-> <<"Estimated cardiovascular risk: ",
                                 PctText(inference.score),
                                 " (", inference.category, ")">>]]

Response(inference) ==
    IF inference.raises
    THEN [status |-> 500,
          body |-> [detail |-> <<"Inference failed: ", inference.msg>>]]
    ELSE [status |-> 200,
          body |-> [risk_score |-> inference.score,
                    risk_category |-> inference.category,
                    explanation |-> <<"Estimated cardiovascular risk: ",
                                      PctText(inference.score),
                                      " (", inference.category, ")">>]]

predict ==
    /\ Len(api) < MaxRequests
    /\ \E inference \in Inferences :
          api' = Append(api, [inference |-> inference, response |-> Response(inference)])
    /\ UNCHANGED <<appVars, pdfVars>>

ApiNext == predict

SpecApi == AuxInit /\ [][ApiNext]_vars

\* ================================================================== claims
Validators == {"validate_ascvd_input", "validate_bp_input",
               "validate_cha2ds2vasc_input", "validate_ecg_rhythm_input",
               "validate_ecg_12lead_input"}
Calculators == Components \ Validators

ValidatorsOf(tool) ==
    CASE tool = "ascvd" -> {"validate_ascvd_input"}
      [] tool = "bp_category" -> {"validate_bp_input"}
      [] tool = "cha2ds2vasc" -> {"validate_cha2ds2vasc_input"}
      [] tool = "ecg_interpret" -> {"validate_ecg_rhythm_input",
                                    "validate_ecg_12lead_input"}
      [] OTHER -> {}

Finished(c) == pc[c] \in {"returned", "raised"}

\* C1: a calculator is invoked only after every validator of that input kind
\* has returned without failure, and a run in which a validator failed
\* invokes no calculator.
C1_ValidateBeforeCompute ==
    \A c \in Callers :
        LET calls == inv[c].calls
        IN  \A i \in 1..Len(calls) :
                calls[i].fn \in Calculators =>
                    /\ \A v \in ValidatorsOf(inv[c].tool) :
                          \E j \in 1..(i - 1) :
                              calls[j].fn = v /\ calls[j].exc = "none"
                    /\ \A j \in 1..Len(calls) :
                          calls[j].fn \in Validators => calls[j].exc = "none"

\* An ECG run in which the three interpreters ran, after both validators.
C1_Witness ==
    \E c \in Callers :
        /\ pc[c] = "returned"
        /\ inv[c].tool = "ecg_interpret"
        /\ Len(inv[c].calls) = 5
        /\ inv[c].calls[5].fn = "interpret_ecg_comprehensive"

\* The inputs that violate a validation rule: a missing field, a number out
\* of range, an unsupported category, a flag that is no boolean.
ViolatesRule(tool, a) ==
    CASE tool = "ascvd" ->
            a.sex = "None" \/ a.race \notin {"White", "Black"} \/ a.age \notin 40..79
      [] tool = "bp_category" -> a.sbp \notin 50..250 \/ a.dbp \notin 40..150
      [] tool = "cha2ds2vasc" ->
            \E f \in DOMAIN a : a[f] \notin {"True", "False"}
      [] tool = "ecg_interpret" -> a.rate \notin 20..250
      [] OTHER -> FALSE

\* C2: an input that violates a validation rule is answered with "X Input
\* Error: " followed by the validator's text, and no error leaves the handler.
C2_InvalidInputReported ==
    \A c \in Callers :
        ViolatesRule(inv[c].tool, inv[c].args) =>
            /\ inv[c].exc = "none"
            /\ \E j \in 1..Len(inv[c].calls) :
                  /\ inv[c].calls[j].fn \in Validators
                  /\ inv[c].calls[j].exc = "ValueError"
                  /\ inv[c].ret = <<"X Input Error: " \o inv[c].calls[j].msg>>

\* C3: the category run_ascvd reports for the probability p the calculator
\* returned is High for p >= 0.20, Intermediate for 0.075 <= p < 0.20,
\* Borderline for 0.05 <= p < 0.075 and Low for p < 0.05.
C3_CategoryBands ==
    \A c \in Callers :
        (inv[c].tool = "ascvd" /\ inv[c].exc = "none" /\ inv[c].caught = "none") =>
            LET p == ascvdTable[inv[c].args.age]
                band == inv[c].locals.category
            IN  /\ p >= 2000 => band = "High"
                /\ (750 <= p /\ p < 2000) => band = "Intermediate"
                /\ (500 <= p /\ p < 750) => band = "Borderline"
                /\ p < 500 => band = "Low"
                /\ inv[c].ret = <<"10-Year ASCVD Risk: " \o Pct1(p)
                                    \o " (" \o band \o ")">>

\* run_ascvd has returned the category of a probability of exactly 0.075.
C3_Witness ==
    \E c \in Callers :
        /\ pc[c] = "returned"
        /\ inv[c].tool = "ascvd"
        /\ inv[c].caught = "none"
        /\ ascvdTable[inv[c].args.age] = 750
        /\ inv[c].locals.category = "Intermediate"

RecordsOf(id) ==
    {i \in 1..Len(log) : log[i].kind = "record" /\ log[i].by = id}

\* C4: every invocation, whatever its outcome, appends exactly one record to
\* the usage log, with a correlation identifier, the tool, the input record
\* and the text (result, or error text) that goes back to the caller.
C4_OneRecordPerInvocation ==
    \A c \in Callers :
        Finished(c) =>
            /\ Cardinality(RecordsOf(inv[c].id)) = 1
            /\ \A i \in RecordsOf(inv[c].id) :
                  /\ log[i].session \in Sessions
                  /\ log[i].tool = inv[c].tool
                  /\ log[i].inputs = inv[c].logged
                  /\ \/ inv[c].caught = "none" /\ log[i].outputs = inv[c].ret[1]
                     \/ \E j \in 1..Len(inv[c].calls) :
                           /\ inv[c].calls[j].exc = "ValueError"
                           /\ log[i].outputs = "Error: " \o inv[c].calls[j].msg
                           /\ inv[c].ret = <<"X Input Error: " \o inv[c].calls[j].msg>>

\* C5: an internal fault of a validator or calculator that is no validation
\* failure comes back to the caller as a failure text carrying the detail,
\* and is logged; it does not leave the handler.
C5_InternalFaultReported ==
    \A c \in Callers :
        \A j \in 1..Len(inv[c].calls) :
            inv[c].calls[j].exc \notin {"none", "ValueError"} =>
                /\ inv[c].exc = "none"
                /\ pc[c] \in {"log", "returned"}
                /\ pc[c] = "returned" => RecordsOf(inv[c].id) # {}

LeadRecordCalls == {"validate_ecg_12lead_input", "interpret_12lead_findings",
                    "interpret_ecg_comprehensive"}

\* C7: the 12-lead record of run_ecg holds st_elevation_leads only when
\* st_elevation is true and q_wave_leads only when pathological_q_waves is
\* true; lead text given with a false flag is dropped, and the run, its other
\* fields being valid, ends with a normal result.
C7_LeadsOnlyWithFlag ==
    \A c \in Callers :
        inv[c].tool = "ecg_interpret" =>
            /\ \A j \in 1..Len(inv[c].calls) :
                  inv[c].calls[j].fn \in LeadRecordCalls =>
                      LET d == inv[c].calls[j].arg
                      IN  /\ "st_elevation_leads" \in DOMAIN d => d.st_elevation = TRUE
                          /\ "q_wave_leads" \in DOMAIN d => d.pathological_q_waves = TRUE
            /\ ("st_elevation_leads" \in DOMAIN inv[c].logged) => inv[c].args.st_elev
            /\ ("q_wave_leads" \in DOMAIN inv[c].logged) => inv[c].args.q_waves
            /\ ( /\ \/ inv[c].args.st_elev_leads # "" /\ ~inv[c].args.st_elev
                    \/ inv[c].args.q_leads # "" /\ ~inv[c].args.q_waves
                 /\ inv[c].args.rate \in 20..250 )
               => /\ inv[c].exc = "none"
                  /\ inv[c].caught = "none"
                  /\ Len(inv[c].calls) = 5
                  /\ Len(inv[c].ret) = 3

\* run_ecg was given ST lead text with a false st_elevation and has returned.
C7_Witness ==
    \E c \in Callers :
        /\ pc[c] = "returned"
        /\ inv[c].tool = "ecg_interpret"
        /\ inv[c].args.st_elev_leads = "V1-V3"
        /\ ~inv[c].args.st_elev
        /\ inv[c].ret[2] = "Findings: No 12-lead abnormalities detected"

\* C8: with callers running at once, every record of the usage log is one
\* whole line written by one invocation: each physical line is a complete
\* record, and each invocation that logged has exactly one.
C8_OneWholeLinePerRecord ==
    /\ \A i \in 1..Len(log) : log[i].kind = "record"
    /\ \A c \in Callers :
          pc[c] = "returned" => Cardinality(RecordsOf(inv[c].id)) = 1

\* What does hold of the log under concurrency: the lines of one record are
\* adjacent, in order, and no invocation that logged lost its record.
LogRecordsContiguous ==
    /\ \A i \in 1..Len(log) :
          log[i].kind = "continuation" => (i > 1 /\ log[i - 1].by = log[i].by)
    /\ \A c \in Callers :
          pc[c] = "returned" => Cardinality(RecordsOf(inv[c].id)) = 1

\* C9: POST /predict answers 200 with the score, the category and an
\* explanation holding the score as a percentage when the inference returns,
\* and 500 with a detail holding the error's message, and no success body,
\* when it raises.
C9_PredictReflectsInference ==
    \A i \in 1..Len(api) :
        LET q == api[i].inference
            r == api[i].response
        IN  /\ ~q.raises =>
                  /\ r.status = 200
                  /\ r.body.risk_score = q.score
                  /\ r.body.risk_category = q.category
                  /\ \E k \in 1..Len(r.body.explanation) :
                        r.body.explanation[k] =
                            ToString(q.score \div 10) \o "." \o ToString(q.score % 10) \o "%"
            /\ q.raises =>
                  /\ r.status = 500
                  /\ DOMAIN r.body = {"detail"}
                  /\ \E k \in 1..Len(r.body.detail) : r.body.detail[k] = q.msg

\* One request was answered 200 with "75.0%" and another 500.
C9_Witness ==
    /\ Len(api) = 2
    /\ api[1].inference.score = 750 /\ ~api[1].inference.raises
    /\ api[1].response.body.explanation[2] = "75.0%"
    /\ api[2].inference.raises
    /\ api[2].response.status = 500

B64Index(ch) == CHOOSE i \in 0..63 : B64Char(i) = ch

\* The bytes a base64 text stands for.
RECURSIVE B64Decode(_)
B64Decode(t) ==
    IF Len(t) < 4 THEN <<>>
    ELSE LET a == B64Index(t[1])
             b == B64Index(t[2])
         IN  IF t[3] = "=" THEN <<a * 4 + b \div 16>>
             ELSE LET c == B64Index(t[3])
                  IN  IF t[4] = "="
                      THEN <<a * 4 + b \div 16, (b % 16) * 16 + c \div 4>>
                      ELSE <<a * 4 + b \div 16, (b % 16) * 16 + c \div 4,
                             (c % 4) * 64 + B64Index(t[4])>>
                           \o B64Decode(SubSeq(t, 5, Len(t)))

BytesOf(r) == IF r.return_base64 THEN B64Decode(r.result.b64) ELSE r.result.raw

RECURSIVE ItemLines(_)
ItemLines(data) ==
    IF data = <<>> THEN <<>>
    ELSE Head(data)[1] \o <<58, 32>>
         \o (IF Head(data)[2].type = "int" THEN Digits(Head(data)[2].n)
             ELSE Head(data)[2].codes)
         \o <<10>> \o ItemLines(Tail(data))

PdfRendersItems ==
    /\ pdf.data = pdf.data_before
    /\ \A i \in 1..Len(rendered) :
          LET r == rendered[i]
          IN  BytesOf(r) = <<37, 80, 68, 70, 48 + r.at, 10>> \o r.title \o <<10>>
                              \o ItemLines(r.data)

\* C10 as stated: data is unchanged, the document is the title and one
\* "key: value" line per item in order, and for the same data and title the
\* return_base64=True result is the base64 text of the return_base64=False
\* bytes.
C10_Base64OfSameDataAndTitle ==
    /\ PdfRendersItems
    /\ \A i, j \in 1..Len(rendered) :
          ( /\ rendered[i].data = rendered[j].data
            /\ rendered[i].title = rendered[j].title
            /\ rendered[i].return_base64
            /\ ~rendered[j].return_base64 )
          => B64Decode(rendered[i].result.b64) = rendered[j].result.raw

\* C10 amended: the same, for two renderings made within the same second.
C10_Base64OfSameRendering ==
    /\ PdfRendersItems
    /\ \A i, j \in 1..Len(rendered) :
          ( /\ rendered[i].data = rendered[j].data
            /\ rendered[i].title = rendered[j].title
            /\ rendered[i].at = rendered[j].at
            /\ rendered[i].return_base64
            /\ ~rendered[j].return_base64 )
          => B64Decode(rendered[i].result.b64) = rendered[j].result.raw

\* Two items were rendered raw and as base64 within the same second.
C10_Witness ==
    \E i, j \in 1..Len(rendered) :
        /\ rendered[i].data = rendered[j].data
        /\ Len(rendered[i].data) = 2
        /\ rendered[i].title = rendered[j].title
        /\ rendered[i].at = rendered[j].at
        /\ rendered[i].return_base64
        /\ ~rendered[j].return_base64
        /\ pdf.data = rendered[j].data

====
